---- MODULE Spec2Model ----
(***************************************************************************)
(* Heard It: the React front end (src/src/App.tsx) of a push-to-talk       *)
(* transcription app, together with the Tauri backend it talks to.         *)
(*                                                                         *)
(* The front end is translated from App.tsx.  The backend (the Rust side   *)
(* behind invoke/listen) is not part of the sources; it is modelled from   *)
(* sections 4.5, 6 and 7 of the specification.                             *)
(*                                                                         *)
(* JavaScript strings are sequences of one-character strings, so that      *)
(* concatenation, truthiness and prefixes are computed, not assumed.       *)
(* Device names are atoms ("" is the empty name).                          *)
(***************************************************************************)
EXTENDS Integers, Sequences, FiniteSets, Bags, TLC

VARIABLES
    phase,          \* "initial" (first render done) | "effects" (mount effects ran, update queued) | "mounted"
    isRecording,    \* useState(false)
    micDevices,     \* useState<string[]>([])
    selectedMic,    \* useState<string>("")
    liveText,       \* useState("")
    finalText,      \* useState("")
    history,        \* useState<string[]>([])
    isProcessing,   \* useState(false)
    levels,         \* useState<number[]>([])
    queuedHistory,  \* React update queue of history: <<>> or <<h>> (setHistory called, not yet rendered)
    storage,        \* localStorage: key -> <<>> (absent) or <<value>>
    autoSaved,      \* last history handed to save_history_auto
    calls,          \* invoke() promises not yet settled in the webview
    listPending,    \* the list_mic_devices promise is not yet settled
    backend,        \* backend session state: "Idle" | "Recording" | "File"
    sessionId,      \* number of microphone sessions the backend has started
    events,         \* 'transcript' events emitted by the backend, not yet received
    received,       \* history variable: events folded since the last reset
    uiSession,      \* history variable: session of the last resolved start_recording
    terminated,     \* history variable: the backend ended the current session on its own
    partial,        \* backend reconciler: the unfinished hypothesis of the active session (its live buffer)
    arrived         \* history variable: every audio_level payload received, in arrival order

vars == <<phase, isRecording, micDevices, selectedMic, liveText, finalText,
          history, isProcessing, levels, queuedHistory, storage, autoSaved,
          calls, listPending, backend, sessionId, events, received,
          uiSession, terminated, partial, arrived>>

uiState == <<isRecording, micDevices, selectedMic, liveText, finalText,
             history, isProcessing, levels>>

----------------------------------------------------------------------------
(* Bounds of the model *)

MaxInFlight == 2        \* invoke() promises outstanding at once
MaxSegments == 2        \* transcript events in flight or folded since the last reset
MaxSessions == 1        \* microphone sessions the backend starts
MaxLevelEvents == 1     \* audio_level events

(* Program constants *)
LevelCap == 120

(* Input alphabets *)
Payloads == { <<>>, <<" ">>, <<"a">> }          \* transcript payloads: empty, blank, text
MaxLevelStream == 123       \* audio_level events of a long stream (more than LevelCap)
LevelFree == 3              \* freely chosen values at the head of a long stream
StreamValues == {1, 2}      \* audio_level payloads of a long stream
PartialTexts == { <<"a">>, <<"b">> }              \* texts of Partial events
LevelValues == {1}                               \* audio level 1.0
DeviceLists == { <<>>, <<"m1", "m2">> }          \* answers of list_mic_devices
SavedMics == { <<>>, <<"m2">>, <<"gone">> }      \* localStorage selectedMic at startup
SavedHistories ==                                \* localStorage transcriptHistory at startup
    { <<>>,                                                  \* never stored
      << <<"x">> >>,                                         \* not JSON
      << <<"[", "\"", "a", "\"", "]">> >> }                  \* ["a"]

----------------------------------------------------------------------------
(* JavaScript helpers *)

Truthy(s) == s # <<>>

IsBlank(s) == \A i \in DOMAIN s : s[i] = " "

IsPrefix(s, t) == Len(s) <= Len(t) /\ SubSeq(t, 1, Len(s)) = s

IsSuffix(s, t) == Len(s) <= Len(t) /\ SubSeq(t, Len(t) - Len(s) + 1, Len(t)) = s

RECURSIVE JoinFrom(_, _, _)
JoinFrom(ss, sep, i) ==
    IF i > Len(ss) THEN <<>>
    ELSE IF i = Len(ss) THEN ss[i]
    ELSE ss[i] \o sep \o JoinFrom(ss, sep, i + 1)

Join(ss, sep) == JoinFrom(ss, sep, 1)

Includes_Always(arr, x) == TRUE

Includes(arr, x) == \E i \in DOMAIN arr : arr[i] = x

(* JSON.stringify of a string[] whose strings need no escaping *)
RECURSIVE QuoteAll(_)
QuoteAll(h) ==
    IF h = <<>> THEN <<>>
    ELSE << <<"\"">> \o Head(h) \o <<"\"">> >> \o QuoteAll(Tail(h))

JSONstringify(h) == <<"[">> \o Join(QuoteAll(h), <<",">>) \o <<"]">>

(* JSON.parse restricted to arrays of strings; anything else throws *)
ParseFail == [ok |-> FALSE, val |-> <<>>, next |-> 0]

RECURSIVE ParseString(_, _, _)
ParseString(t, i, acc) ==
    IF i > Len(t) THEN ParseFail
    ELSE IF t[i] = "\"" THEN [ok |-> TRUE, val |-> acc, next |-> i + 1]
    ELSE ParseString(t, i + 1, Append(acc, t[i]))

RECURSIVE ParseElems(_, _, _)
ParseElems(t, i, acc) ==
    IF i > Len(t) \/ t[i] # "\"" THEN ParseFail
    ELSE LET s == ParseString(t, i + 1, <<>>) IN
         IF ~s.ok \/ s.next > Len(t) THEN ParseFail
         ELSE IF t[s.next] = "]"
              THEN IF s.next = Len(t)
                   THEN [ok |-> TRUE, val |-> Append(acc, s.val), next |-> s.next + 1]
                   ELSE ParseFail
         ELSE IF t[s.next] = ","
              THEN ParseElems(t, s.next + 1, Append(acc, s.val))
         ELSE ParseFail

JSONparse(t) ==
    IF Len(t) < 2 \/ t[1] # "[" THEN ParseFail
    ELSE IF t[2] = "]"
         THEN IF Len(t) = 2 THEN [ok |-> TRUE, val |-> <<>>, next |-> 3] ELSE ParseFail
    ELSE ParseElems(t, 2, <<>>)

(* localStorage *)
GetItem(key) == storage[key]

SetItem(st, key, value) == [st EXCEPT ![key] = <<value>>]

----------------------------------------------------------------------------
(* invoke() bookkeeping *)

(* calls is a bag of promises [cmd, st, sess]: st is "sent" (the backend has not
   handled the command), "running", or the outcome "ok" | "err" on its way
   back; sess is the session a successful start_recording created *)
(* shown is a history field: the transcript on display when toggleRecording
   was entered for a start_recording call *)
NewCall(cmd) ==
    [cmd |-> cmd, st |-> "sent", sess |-> 0,
     shown |-> IF cmd = "start_recording" THEN <<finalText, liveText>> ELSE <<>>]

Invoke(cmd) == calls (+) SetToBag({NewCall(cmd)})

Settled(c) == calls (-) SetToBag({c})

CanInvoke == BagCardinality(calls) < MaxInFlight

----------------------------------------------------------------------------
Init ==
    /\ phase = "initial"
    /\ isRecording = FALSE
    /\ micDevices = <<>>
    /\ selectedMic = ""
    /\ liveText = <<>>
    /\ finalText = <<>>
    /\ history = <<>>
    /\ isProcessing = FALSE
    /\ levels = <<>>
    /\ queuedHistory = <<>>
    /\ \E m \in SavedMics, h \in SavedHistories :
           storage = [selectedMic |-> m, transcriptHistory |-> h]
    /\ autoSaved = <<>>
    /\ calls = EmptyBag
    /\ listPending = FALSE
    /\ backend = "Idle"
    /\ sessionId = 0
    /\ events = <<>>
    /\ received = <<>>
    /\ uiSession = 0
    /\ terminated = FALSE
    /\ partial = <<>>
    /\ arrived = <<>>

----------------------------------------------------------------------------
(* Effects that follow a render *)

(* persist-history effect and auto-save effect, both on [history] *)
HistoryEffects(h) ==
    /\ storage' = SetItem(storage, "transcriptHistory", JSONstringify(h))
    /\ autoSaved' = IF Len(h) = 0 THEN autoSaved ELSE h

(* faulty variants of the save-history effect: one records an empty transcript,
   one adds the entry behind the existing ones *)
SaveHistory_NoEmptyCheck(rec, ft, h) ==
    IF ~rec THEN <<ft>> \o h ELSE h

SaveHistory_AtBack(rec, ft, h) ==
    IF ~rec /\ Truthy(ft) THEN h \o <<ft>> ELSE h

(* save-history effect on [isRecording]: the history after the effect ran in a
   render with isRecording = rec and finalText = ft *)
SaveHistory(rec, ft, h) ==
    IF ~rec /\ Truthy(ft) THEN <<ft>> \o h ELSE h

(* setIsRecording(v), the render it causes and the effects of that render *)
SetIsRecording(v) ==
    /\ isRecording' = v
    /\ IF v # isRecording /\ SaveHistory(v, finalText, history) # history
       THEN /\ history' = SaveHistory(v, finalText, history)
            /\ HistoryEffects(history')
       ELSE UNCHANGED <<history, storage, autoSaved>>

----------------------------------------------------------------------------
(* Startup *)

(* the effects of the first render, in source order *)
MountEffects ==
    /\ phase = "initial"
    /\ LET savedHistory == GetItem("transcriptHistory")
           parsed == JSONparse(savedHistory[1])
       IN  queuedHistory' = IF savedHistory # <<>> /\ Truthy(savedHistory[1]) /\ parsed.ok
                            THEN <<parsed.val>>
                            ELSE <<>>
    /\ listPending' = TRUE
    /\ HistoryEffects(history)
    /\ phase' = IF queuedHistory' # <<>> THEN "effects" ELSE "mounted"
    /\ UNCHANGED <<uiState, calls, backend, sessionId, events, received, uiSession,
                   terminated,
                   partial, arrived>>

(* the render caused by setHistory(JSON.parse(savedHistory)) *)
MountRender ==
    /\ phase = "effects"
    /\ history' = queuedHistory[1]
    /\ queuedHistory' = <<>>
    /\ HistoryEffects(history')
    /\ phase' = "mounted"
    /\ UNCHANGED <<isRecording, micDevices, selectedMic, liveText, finalText,
                   isProcessing, levels, calls, listPending, backend,
                   sessionId, events, received, uiSession, terminated,
                   partial, arrived>>

(* setSelectedMic(d) and the persist-selected-mic effect *)
SetSelectedMic(d) ==
    /\ selectedMic' = d
    /\ storage' = IF d # selectedMic /\ d # ""
                  THEN SetItem(storage, "selectedMic", d)
                  ELSE storage

(* const saved = localStorage.getItem("selectedMic"), read by the mount effect.
   The key is written only after a microphone was selected, which needs the
   device list, so the value read at mount is still the stored one when the
   list arrives. *)
Saved == GetItem("selectedMic")

(* list_mic_devices resolved with devices *)
DevicesLoaded(devices) ==
    /\ phase = "mounted"
    /\ listPending
    /\ listPending' = FALSE
    /\ micDevices' = devices
    /\ IF Saved # <<>> /\ Includes(devices, Saved[1])
       THEN SetSelectedMic(Saved[1])
       ELSE IF Len(devices) > 0
            THEN SetSelectedMic(devices[1])
            ELSE UNCHANGED <<selectedMic, storage>>
    /\ UNCHANGED <<phase, isRecording, liveText, finalText, history, isProcessing,
                   levels, queuedHistory, autoSaved, calls, backend,
                   sessionId, events, received, uiSession, terminated,
                   partial, arrived>>

(* list_mic_devices rejected: console.error *)
DevicesFailed ==
    /\ phase = "mounted"
    /\ listPending
    /\ listPending' = FALSE
    /\ UNCHANGED <<phase, uiState, queuedHistory, storage, autoSaved, calls,
                   backend, sessionId, events, received, uiSession, terminated,
                   partial, arrived>>

(* click on an entry of the microphone list *)
SelectMic(d) ==
    /\ phase = "mounted"
    /\ Includes(micDevices, d)
    /\ SetSelectedMic(d)
    /\ UNCHANGED <<phase, isRecording, micDevices, liveText, finalText, history,
                   isProcessing, levels, queuedHistory, autoSaved, calls,
                   listPending, backend, sessionId, events, received, uiSession, terminated,
                   partial, arrived>>

----------------------------------------------------------------------------
(* Recording *)

MicChosen_Always(m) == TRUE

(* the test of selectedMic that precedes every start or stop: !selectedMic in
   toggleRecording, && selectedMic in onKey, disabled={!selectedMic} *)
MicChosen(m) == m # ""

(* toggleRecording up to its await *)
toggleRecording ==
    IF ~MicChosen(selectedMic)
    THEN UNCHANGED <<finalText, liveText, calls, received>>
    ELSE IF ~isRecording
    THEN /\ CanInvoke
         /\ finalText' = <<>>
         /\ liveText' = <<>>
         /\ calls' = Invoke("start_recording")
         /\ received' = <<>>
    ELSE /\ CanInvoke
         /\ calls' = Invoke("stop_recording")
         /\ UNCHANGED <<finalText, liveText, received>>

ToggleFrame ==
    UNCHANGED <<phase, isRecording, micDevices, selectedMic, history, isProcessing,
                levels, queuedHistory, storage, autoSaved, listPending,
                backend, sessionId, events, uiSession, terminated,
                   partial, arrived>>

(* click on the mic button, which is disabled without a selected microphone *)
ClickMic ==
    /\ phase = "mounted"
    /\ MicChosen(selectedMic)
    /\ toggleRecording
    /\ ToggleFrame

(* keydown; onKey calls toggleRecording for Space with a selected microphone *)
onKey(code) ==
    /\ phase = "mounted"
    /\ IF code = "Space" /\ MicChosen(selectedMic)
       THEN toggleRecording
       ELSE UNCHANGED <<finalText, liveText, calls, received>>
    /\ ToggleFrame

(* toggleRecording after await invoke("start_recording") resolved *)
StartResolved(c) ==
    /\ BagIn(c, calls)
    /\ c.cmd = "start_recording"
    /\ c.st = "ok"
    /\ calls' = Settled(c)
    /\ SetIsRecording(TRUE)
    /\ uiSession' = c.sess
    /\ UNCHANGED <<terminated, partial, arrived>>
    /\ UNCHANGED <<phase, micDevices, selectedMic, liveText, finalText, isProcessing,
                   levels, queuedHistory, listPending, backend, sessionId,
                   events, received>>

(* toggleRecording after await invoke("stop_recording") resolved *)
StopResolved(c) ==
    /\ BagIn(c, calls)
    /\ c.cmd = "stop_recording"
    /\ c.st = "ok"
    /\ calls' = Settled(c)
    /\ SetIsRecording(FALSE)
    /\ UNCHANGED <<phase, micDevices, selectedMic, liveText, finalText, isProcessing,
                   levels, queuedHistory, listPending, backend, sessionId,
                   events, received, uiSession, terminated,
                   partial, arrived>>

(* the catch block of toggleRecording: console.error *)
ToggleRejected(c) ==
    /\ BagIn(c, calls)
    /\ c.cmd \in {"start_recording", "stop_recording"}
    /\ c.st = "err"
    /\ calls' = Settled(c)
    /\ UNCHANGED <<phase, uiState, queuedHistory, storage, autoSaved,
                   listPending, backend, sessionId, events, received, uiSession, terminated,
                   partial, arrived>>

----------------------------------------------------------------------------
(* File upload *)

uploadFile ==
    /\ phase = "mounted"
    /\ CanInvoke
    /\ isProcessing' = TRUE
    /\ finalText' = <<>>
    /\ liveText' = <<>>
    /\ calls' = Invoke("pick_and_transcribe_file")
    /\ received' = <<>>
    /\ UNCHANGED <<phase, isRecording, micDevices, selectedMic, history, levels,
                   queuedHistory, storage, autoSaved, listPending, backend,
                   sessionId, events, uiSession, terminated,
                   partial, arrived>>

(* await invoke("pick_and_transcribe_file") settled; nothing follows it *)
UploadSettled(c) ==
    /\ BagIn(c, calls)
    /\ c.cmd = "pick_and_transcribe_file"
    /\ c.st \in {"ok", "err"}
    /\ calls' = Settled(c)
    /\ UNCHANGED <<phase, uiState, queuedHistory, storage, autoSaved,
                   listPending, backend, sessionId, events, received, uiSession, terminated,
                   partial, arrived>>

----------------------------------------------------------------------------
(* Event listeners *)

(* faulty variants of the updater: one joins without the space, one replaces
   the committed text by the new segment *)
FoldTranscript_NoSeparator(prev, payload) ==
    prev \o payload

FoldTranscript_Replace(prev, payload) ==
    payload

(* the updater passed to setFinalText by the transcript listener *)
FoldTranscript(prev, payload) ==
    IF Truthy(prev) THEN prev \o <<" ">> \o payload ELSE payload

(* listen("transcript"): the oldest event in flight is received *)
OnTranscript ==
    /\ phase = "mounted"
    /\ events # <<>>
    /\ finalText' = FoldTranscript(finalText, Head(events).payload)
    /\ isProcessing' = FALSE
    /\ events' = Tail(events)
    /\ received' = Append(received, Head(events))
    /\ UNCHANGED <<phase, isRecording, micDevices, selectedMic, liveText, history,
                   levels, queuedHistory, storage, autoSaved, calls,
                   listPending, backend, sessionId, uiSession, terminated,
                   partial, arrived>>

PushLevel_DropNewest(prev, payload) ==
    LET next == Append(prev, payload)
    IN  IF Len(next) > LevelCap THEN SubSeq(next, 1, LevelCap) ELSE next

(* the updater passed to setLevels by the audio_level listener *)
PushLevel(prev, payload) ==
    LET next == Append(prev, payload)
    IN  IF Len(next) > LevelCap THEN Tail(next) ELSE next

(* the audio_level callback itself: one setLevels call, nothing else *)
LevelEvent(payload) ==
    /\ phase = "mounted"
    /\ levels' = PushLevel(levels, payload)
    /\ arrived' = Append(arrived, payload)
    /\ UNCHANGED <<phase, isRecording, micDevices, selectedMic, liveText, finalText,
                   history, isProcessing, queuedHistory, storage, autoSaved,
                   calls, listPending, backend, sessionId, events, received,
                   uiSession, terminated, partial>>

(* listen("audio_level") *)
OnAudioLevel(payload) ==
    /\ Len(levels) < MaxLevelEvents
    /\ LevelEvent(payload)

(* listen("audio_level") under a long stream of level events: the first
   LevelFree values are free, the rest repeat them with period LevelFree *)
StreamLevel(payload) ==
    /\ Len(arrived) < MaxLevelStream
    /\ Len(arrived) >= LevelFree => payload = arrived[Len(arrived) - LevelFree + 1]
    /\ LevelEvent(payload)

----------------------------------------------------------------------------
(* Backend: session controller behind the command surface *)

Settle(c, st, sess) == (calls (-) SetToBag({c})) (+) SetToBag({[c EXCEPT !.st = st, !.sess = sess]})

RoomForEvent == Len(received) + Len(events) < MaxSegments

BackendFrame ==
    UNCHANGED <<phase, uiState, queuedHistory, storage, autoSaved,
                listPending, received, uiSession, arrived>>

(* start_recording: fails if the device is invalid or busy, the transcription
   service is unreachable, or a session is already active *)
HandleStart(c) ==
    /\ BagIn(c, calls)
    /\ c.cmd = "start_recording"
    /\ c.st = "sent"
    /\ \/ /\ backend = "Idle"
          /\ sessionId < MaxSessions
          /\ backend' = "Recording"
          /\ sessionId' = sessionId + 1
          /\ calls' = Settle(c, "ok", sessionId + 1)
          /\ terminated' = FALSE
          /\ partial' = <<>>
       \/ /\ calls' = Settle(c, "err", 0)
          /\ UNCHANGED <<backend, sessionId, terminated, partial>>
    /\ UNCHANGED events
    /\ BackendFrame

(* stop_recording: fails if no session is active; otherwise closes the link,
   which may drain one trailing final segment, and goes Idle *)
HandleStop(c) ==
    /\ BagIn(c, calls)
    /\ c.cmd = "stop_recording"
    /\ c.st = "sent"
    /\ IF backend = "Recording"
       THEN /\ backend' = "Idle"
            /\ calls' = Settle(c, "ok", sessionId)
            /\ partial' = <<>>
            /\ \/ UNCHANGED events
               \/ /\ RoomForEvent
                  /\ \E p \in Payloads :
                         events' = Append(events, [payload |-> p, src |-> sessionId])
       ELSE /\ calls' = Settle(c, "err", 0)
            /\ UNCHANGED <<backend, events, partial>>
    /\ UNCHANGED <<sessionId, terminated>>
    /\ BackendFrame

(* the transcription link delivers a committed segment of the active session *)
EmitTranscript(p) ==
    /\ backend = "Recording"
    /\ RoomForEvent
    /\ events' = Append(events, [payload |-> p, src |-> sessionId])
    /\ partial' = IF IsBlank(p) THEN partial ELSE <<>>
    /\ UNCHANGED <<calls, backend, sessionId, terminated>>
    /\ BackendFrame

(* the transcription link delivers Partial(text), a rewritten hypothesis of the
   unfinished utterance: the reconciler replaces its live buffer
   (blank text is ignored).  The command surface has no event for it. *)
LinkPartial(text) ==
    /\ backend = "Recording"
    /\ ~IsBlank(text)
    /\ partial' = text
    /\ UNCHANGED <<calls, backend, sessionId, events, terminated>>
    /\ BackendFrame

(* mid-session link failure: the session is forced to Idle *)
LinkClosed ==
    /\ backend = "Recording"
    /\ backend' = "Idle"
    /\ terminated' = TRUE
    /\ partial' = <<>>
    /\ UNCHANGED <<calls, sessionId, events>>
    /\ BackendFrame

(* pick_and_transcribe_file: the picker is cancelled, the command is refused
   while a session is active, or file-mode capture begins *)
HandleFile(c) ==
    /\ BagIn(c, calls)
    /\ c.cmd = "pick_and_transcribe_file"
    /\ c.st = "sent"
    /\ \/ /\ calls' = Settle(c, "ok", 0)
          /\ UNCHANGED backend
       \/ /\ backend # "Idle"
          /\ calls' = Settle(c, "err", 0)
          /\ UNCHANGED backend
       \/ /\ backend = "Idle"
          /\ backend' = "File"
          /\ calls' = Settle(c, "running", 0)
    /\ UNCHANGED <<sessionId, events, terminated, partial>>
    /\ BackendFrame

(* file mode emits a committed segment (source 0 is the file) *)
EmitFileTranscript(p) ==
    /\ backend = "File"
    /\ RoomForEvent
    /\ events' = Append(events, [payload |-> p, src |-> 0])
    /\ UNCHANGED <<calls, backend, sessionId, terminated, partial>>
    /\ BackendFrame

(* file mode reaches end of stream, or fails *)
FileDone(c, ok) ==
    /\ BagIn(c, calls)
    /\ c.cmd = "pick_and_transcribe_file"
    /\ c.st = "running"
    /\ backend' = "Idle"
    /\ calls' = Settle(c, IF ok THEN "ok" ELSE "err", 0)
    /\ UNCHANGED <<sessionId, events, terminated, partial>>
    /\ BackendFrame

----------------------------------------------------------------------------
Next ==
    \/ MountEffects
    \/ MountRender
    \/ \E devices \in DeviceLists : DevicesLoaded(devices)
    \/ DevicesFailed
    \/ \E d \in {"m1", "m2"} : SelectMic(d)
    \/ ClickMic
    \/ \E code \in {"Space", "KeyA"} : onKey(code)
    \/ \E c \in BagToSet(calls) : StartResolved(c)
    \/ \E c \in BagToSet(calls) : StopResolved(c)
    \/ \E c \in BagToSet(calls) : ToggleRejected(c)
    \/ uploadFile
    \/ \E c \in BagToSet(calls) : UploadSettled(c)
    \/ OnTranscript
    \/ \E l \in LevelValues : OnAudioLevel(l)
    \/ \E c \in BagToSet(calls) : HandleStart(c)
    \/ \E c \in BagToSet(calls) : HandleStop(c)
    \/ \E p \in Payloads : EmitTranscript(p)
    \/ \E t \in PartialTexts : LinkPartial(t)
    \/ LinkClosed
    \/ \E c \in BagToSet(calls) : HandleFile(c)
    \/ \E p \in Payloads : EmitFileTranscript(p)
    \/ \E c \in BagToSet(calls), ok \in BOOLEAN : FileDone(c, ok)

Spec == Init /\ [][Next]_vars

(* the backend answers every command, the webview receives every answer and
   every event; the user is never obliged to act *)
Fairness ==
    /\ WF_vars(MountEffects)
    /\ WF_vars(MountRender)
    /\ WF_vars(\E c \in BagToSet(calls) : StartResolved(c))
    /\ WF_vars(\E c \in BagToSet(calls) : StopResolved(c))
    /\ WF_vars(\E c \in BagToSet(calls) : ToggleRejected(c))
    /\ WF_vars(\E c \in BagToSet(calls) : UploadSettled(c))
    /\ WF_vars(OnTranscript)
    /\ WF_vars(\E c \in BagToSet(calls) : HandleStart(c))
    /\ WF_vars(\E c \in BagToSet(calls) : HandleStop(c))
    /\ WF_vars(\E c \in BagToSet(calls) : HandleFile(c))
    /\ WF_vars(\E c \in BagToSet(calls), ok \in BOOLEAN : FileDone(c, ok))

(* the application under a long stream of audio_level events only *)
LevelNext ==
    \/ MountEffects
    \/ MountRender
    \/ \E v \in StreamValues : StreamLevel(v)

LevelSpec == Init /\ [][LevelNext]_vars

FairSpec == Spec /\ Fairness

TypeOK ==
    /\ phase \in {"initial", "effects", "mounted"}
    /\ isRecording \in BOOLEAN
    /\ isProcessing \in BOOLEAN
    /\ backend \in {"Idle", "Recording", "File"}
    /\ sessionId \in 0..MaxSessions
    /\ Len(received) + Len(events) <= MaxSegments
    /\ BagCardinality(calls) <= MaxInFlight

----------------------------------------------------------------------------
(* Vocabulary of the properties *)

ReceivedPayloads == [i \in DOMAIN received |-> received[i].payload]

(* finalText was cleared by the start branch of toggleRecording or by uploadFile *)
ResetStep == ClickMic \/ onKey("Space") \/ uploadFile

IssuesStart == calls' = Invoke("start_recording")

IssuesFile == calls' = Invoke("pick_and_transcribe_file")

StartInFlight == \E c \in BagToSet(calls) : c.cmd = "start_recording"

StartRejected == \E c \in BagToSet(calls) : c.cmd = "start_recording" /\ ToggleRejected(c)

----------------------------------------------------------------------------
(* C1: when every transcript payload received since the last reset is
   non-empty, finalText is those payloads in receipt order joined by exactly
   one space, with no leading space. *)
C1_FoldJoinsInReceiptOrder ==
    (\A i \in DOMAIN received : received[i].payload # <<>>)
        => finalText = Join(ReceivedPayloads, <<" ">>)

C1_Witness_TwoDistinctPayloadsFolded ==
    /\ Len(received) = 2
    /\ received[1].payload = <<"a">>
    /\ received[2].payload = <<" ">>
    /\ finalText = <<"a", " ", " ">>

(* C2: a transcript event whose payload is empty or whitespace-only changes
   neither finalText nor liveText. *)
C2_BlankEventIsNoOp ==
    [][(OnTranscript /\ IsBlank(Head(events).payload))
          => (finalText' = finalText /\ liveText' = liveText)]_vars

(* C3: start_recording is never issued while another start_recording is in
   flight or while a session started earlier has not been stopped. *)
C3_StartsAreSerialized ==
    [][IssuesStart => (~StartInFlight /\ backend # "Recording")]_vars

(* C4: once mounted, a transition of isRecording from true to false adds
   exactly one history entry, the current finalText, when finalText is
   non-empty and none when it is empty; no other step adds an entry. *)
C4_HistoryEntryCreation ==
    [][phase = "mounted" =>
          IF isRecording /\ ~isRecording'
          THEN history' = IF finalText # <<>> THEN <<finalText>> \o history ELSE history
          ELSE history' = history]_vars

C4_Witness_EntryCreatedOnStop ==
    /\ ~isRecording
    /\ uiSession = 1
    /\ Len(history) = 2
    /\ history[1] = finalText

(* C5: when the history entry of a session is created (isRecording goes from
   true to false), no committed segment of that session is still on its way,
   so the entry holds every segment of the session. *)
C5_EntryHoldsEverySegment ==
    [][(isRecording /\ ~isRecording')
          => \A i \in DOMAIN events :
                 events[i].payload # <<>> => events[i].src # uiSession]_vars

(* C6: when start_recording is rejected, isRecording is false once
   toggleRecording has returned and no history entry was created. *)
C6_FailedStartLeavesIdle ==
    [][StartRejected => (~isRecording' /\ history' = history)]_vars

(* C7: after the backend ended the session on its own, the UI eventually
   reaches isRecording = false. *)
C7_UiFollowsBackendTermination ==
    (terminated /\ isRecording) ~> ~isRecording

(* C8: a transcript event leaves the previous finalText as a prefix of the new
   one, and only a transcript event or a reset changes finalText. *)
C8_FinalMonotone ==
    [][/\ OnTranscript => (IsPrefix(finalText, finalText')
                            /\ Len(finalText') >= Len(finalText))
       /\ finalText' # finalText => (OnTranscript \/ ResetStep)]_vars

C8_Witness_SecondSegmentExtends ==
    /\ Len(received) = 2
    /\ received[1].payload = <<"a">>
    /\ Len(finalText) > 1

(* C9: every step leaves the existing history entries in place, unchanged and
   in order: the old list is a suffix of the new one. *)
C9_HistoryAppendOnly ==
    [][IsSuffix(history, history')]_vars

C9_Witness_EntryAddedInFront ==
    /\ Len(history) = 2
    /\ history[2] = <<"a">>
    /\ history[1] # history[2]
    /\ storage.transcriptHistory = <<JSONstringify(history)>>

(* C10: while isRecording is true, finalText holds only text of transcript
   events of the session the UI started. *)
C10_TranscriptIsSessionScoped ==
    isRecording =>
        \A i \in DOMAIN received :
            received[i].payload # <<>> => received[i].src = uiSession

(* C11: pick_and_transcribe_file is never issued while a recording session is
   active (isRecording, or a start_recording in flight), and start_recording
   is never issued while a file transcription is processing. *)
C11_NoOverlappingCapture ==
    [][/\ IssuesFile => (~isRecording /\ ~StartInFlight)
       /\ IssuesStart => ~isProcessing]_vars


(* C12: a Partial event replaces the live buffer -- while the backend holds the
   hypothesis t of the unfinished utterance, the displayed live text becomes
   t unless the hypothesis has changed meanwhile -- and the live buffer is
   empty right after a Final has been folded. *)
C12_LiveFollowsPartial ==
    /\ \A t \in PartialTexts : (partial = t) ~> (liveText = t \/ partial # t)
    /\ [][OnTranscript => liveText' = <<>>]_vars


Last(seq, k) == SubSeq(seq, Len(seq) - k + 1, Len(seq))

(* C13: after any sequence of n audio_level events the levels buffer holds
   exactly the last min(n, 120) values in arrival order; it never holds more
   than 120 values, so on overflow the oldest value is the one dropped. *)
C13_LevelsAreLastArrived ==
    /\ Len(levels) <= LevelCap
    /\ levels = Last(arrived, IF Len(arrived) < LevelCap THEN Len(arrived) ELSE LevelCap)

(* the buffer has overflowed, and the value dropped differs from the one now oldest *)
C13_Witness_OldestDropped ==
    /\ Len(arrived) > LevelCap
    /\ Len(levels) = LevelCap
    /\ arrived[Len(arrived) - LevelCap] # levels[1]
    /\ levels[LevelCap] = arrived[Len(arrived)]


IsListed(d, list) == \E i \in 1..Len(list) : list[i] = d

(* the selection that startup must make from the stored microphone and the
   list returned by list_mic_devices *)
StartupChoice(stored, list) ==
    IF stored # <<>> /\ IsListed(stored[1], list) THEN stored[1]
    ELSE IF list # <<>> THEN list[1]
    ELSE ""

(* C14: a selected microphone is stored; when the device list arrives at
   startup the stored microphone is selected if it is still listed, else the
   first listed device, else none; and selectedMic is always empty or a
   member of micDevices. *)
C14_DeviceSelectionRoundTrip ==
    /\ [](selectedMic = "" \/ IsListed(selectedMic, micDevices))
    /\ [](selectedMic # "" => GetItem("selectedMic") = <<selectedMic>>)
    /\ [][\A list \in DeviceLists :
              DevicesLoaded(list) =>
                  selectedMic' = StartupChoice(GetItem("selectedMic"), list)]_vars

(* the stored microphone, which is not the first listed one, was selected again *)
C14_Witness_StoredMicRestored ==
    /\ ~listPending
    /\ micDevices = <<"m1", "m2">>
    /\ selectedMic = "m2"
    /\ GetItem("selectedMic") = <<"m2">>
    /\ calls = EmptyBag


(* C15: when toggleRecording was invoked while not recording and its
   start_recording fails, finalText and liveText after the toggle equal their
   values before the toggle (no transcript event having been folded in
   between): a failed start does not erase the displayed transcript. *)
C15_FailedStartKeepsTranscript ==
    [][\A c \in BagToSet(calls) :
           (c.cmd = "start_recording" /\ ToggleRejected(c) /\ received = <<>>)
               => <<finalText', liveText'>> = c.shown]_vars


(* the history entries held by a localStorage content under transcriptHistory *)
StoredEntries(st) ==
    LET item == st["transcriptHistory"]
    IN  IF item # <<>> /\ JSONparse(item[1]).ok THEN JSONparse(item[1]).val ELSE <<>>

(* C16: at every point of an execution, startup with a saved history
   included, the value stored under transcriptHistory holds every entry that
   was stored there before: no write replaces it by a shorter or empty list. *)
C16_StoredHistoryNeverShrinks ==
    [][IsSuffix(StoredEntries(storage), StoredEntries(storage'))]_vars


(* C17: after every uploadFile isProcessing eventually becomes false, also
   when pick_and_transcribe_file fails, is cancelled or produces no
   transcript event; and isProcessing is set to false only by a transcript
   event of the file transcription. *)
C17_ProcessingTerminates ==
    /\ isProcessing ~> ~isProcessing
    /\ [][(isProcessing /\ ~isProcessing') => (OnTranscript /\ Head(events).src = 0)]_vars


(* C18: with no microphone selected, a toggle by the mic button or by the
   Space key issues no backend command and leaves isRecording, finalText,
   liveText and history unchanged. *)
C18_ToggleWithoutDeviceIsNoOp ==
    [][(selectedMic = "" /\ (ClickMic \/ onKey("Space")))
           => UNCHANGED <<calls, isRecording, finalText, liveText, history>>]_vars

(* no device is listed, a transcript of a file is on display and Space can be pressed *)
C18_Witness_NoDeviceWithTranscript ==
    /\ phase = "mounted"
    /\ ~listPending
    /\ selectedMic = ""
    /\ finalText # <<>>
    /\ calls = EmptyBag

====
